---------------------------- MODULE Spec2Model ----------------------------
(***************************************************************************)
(* A model of netmap (netmap.go, nmap.go): the nmap scan and its XML       *)
(* parser, the geometry of the square image (getLength), the Hilbert       *)
(* mapping of address offsets to pixels, the colour gradient (getColor),   *)
(* the compositor (renderImage), the writer (writeImage) and main.         *)
(*                                                                         *)
(* TLC's integers are 32 bits wide, so unsigned 32-bit values (addresses,  *)
(* 2^32) are kept as two 16-bit halves [hi, lo].                           *)
(***************************************************************************)
EXTENDS Integers, Sequences, FiniteSets, TLC

VARIABLES
    pc,          \* position of main: "main", "scanned", "rendered", "exit"
    flags,       \* the parsed command line: [network, scantype, transparent]
    build,       \* the build: [intBits, f2u8]
    hosts,       \* the []Host that Scan returned
    canvas,      \* the image renderImage returned, or NoCanvas
    err,         \* the error the last call returned
    exit,        \* the exit status of the process, -1 while it runs
    out,         \* the output file: "none", "empty" (created, nothing encoded), "image"
    arg,         \* the argument of a call made on its own (getLength, getColor, Map)
    ret          \* what that call returned

vars == <<pc, flags, build, hosts, canvas, err, exit, out, arg, ret>>

----------------------------------------------------------------------------
(* Bounds of the model *)

\* the longest list of host elements in a scan's XML
MaxHosts == 2
\* New and Map are called on their own for sides up to 2^MaxOrder
MaxOrder == 4

----------------------------------------------------------------------------
(* Unsigned 32-bit arithmetic on 16-bit halves *)

Half == 2 ^ 16

U32(hi, lo) == [hi |-> hi, lo |-> lo]

\* a - b in uint32 (wraps modulo 2^32)
Sub32(a, b) ==
    LET borrow == IF a.lo < b.lo THEN 1 ELSE 0
    IN  U32((a.hi - b.hi - borrow) % Half, (a.lo - b.lo) % Half)

\* s * s for 0 <= s <= 65536, exactly, as [hi, lo] (hi may reach 65536: 2^32)
Square(s) ==
    LET a == s \div 256
        b == s % 256
        r == 2 * a * b * 256 + b * b
    IN  U32(a * a + r \div Half, r % Half)

\* math.Pow(2, h) for 0 <= h <= 32: exact in float64
Pow2(h) == IF h < 16 THEN U32(0, 2 ^ h) ELSE U32(2 ^ (h - 16), 0)

LessEq(a, b) == a.hi < b.hi \/ (a.hi = b.hi /\ a.lo <= b.lo)

\* floor of math.Sqrt(c) for c <= 2^32, one bit at a time from 2^16 down
RECURSIVE SqrtBits(_, _, _)
SqrtBits(c, s, b) ==
    IF b < 0 THEN s
    ELSE IF s + 2 ^ b <= Half /\ LessEq(Square(s + 2 ^ b), c)
         THEN SqrtBits(c, s + 2 ^ b, b - 1)
         ELSE SqrtBits(c, s, b - 1)

\* math.Sqrt(c): the integer part, and whether the root is an integer
\* (float64 holds the root of a 33-bit value exactly when it is an integer,
\* and a non-integer root of a value below 2^33 never rounds to an integer)
Sqrt(c) ==
    LET s == SqrtBits(c, 0, 16)
    IN  [floor |-> s, whole |-> Square(s) = c]

\* math.Ceil of such a value
Ceil(l) == IF l.whole THEN l.floor ELSE l.floor + 1

----------------------------------------------------------------------------
(* netmap.go: getLength *)

nil == "nil"
ErrNotIPv4 == "the given network is not an IPv4 network"
ErrNotSquare == "please choose a network that allows a square image"

\* getLength with the squareness test dropped: the root is rounded down
getLengthRounding(n) ==
    IF n.bits # 32 THEN [l |-> 0, err |-> ErrNotIPv4]
    ELSE [l |-> Sqrt(Pow2(n.bits - n.ones)).floor, err |-> nil]

\* n is a *net.IPNet: n.ones, n.bits are n.Mask.Size()
getLength(n) ==
    IF n.bits # 32 THEN [l |-> 0, err |-> ErrNotIPv4]
    ELSE LET l == Sqrt(Pow2(n.bits - n.ones))
         IN  IF ~(l.whole /\ l.floor = Ceil(l))   \* l != math.Ceil(l)
             THEN [l |-> 0, err |-> ErrNotSquare]
             ELSE [l |-> l.floor, err |-> nil]

----------------------------------------------------------------------------
(* netmap.go: the gradient and getColor *)

MaxUint16 == 65535

\* colors: index -> <<R, G, B, A>>, indexed from 0 as in the source
colors ==
    [i \in 0..6 |->
        CASE i = 0 -> <<0, 0, 0, 255>>         \* black
          [] i = 1 -> <<0, 0, 255, 255>>       \* blue
          [] i = 2 -> <<0, 255, 255, 255>>     \* cyan
          [] i = 3 -> <<0, 255, 0, 255>>       \* green
          [] i = 4 -> <<255, 255, 0, 255>>     \* yellow
          [] i = 5 -> <<255, 0, 0, 255>>       \* red
          [] i = 6 -> <<255, 255, 255, 255>>]  \* white

lenColors == Cardinality(DOMAIN colors)

Max0(i) == IF i < 0 THEN 0 ELSE i

\* currV := uint16(i * math.MaxUint16 / len(colors))
currV(i) == ((i * MaxUint16) \div lenColors) % Half

\* diff := uint16(max(0, i-1))*math.MaxUint16/uint16(len(colors)) - currV,
\* every step in uint16
diff(i) == ((((Max0(i - 1) * MaxUint16) % Half) \div lenColors) - currV(i)) % Half

\* ceiling of a / b for a >= 0, b > 0
CeilDiv(a, b) == (a + b - 1) \div b

\* uint8(v) of a float64 whose integer part is v: exact inside 0..255; outside
\* it the result is implementation-specific: the low byte (conversion through
\* a wider integer) or the nearest bound (a saturating conversion)
F2U8(v, b) ==
    IF v >= 0 /\ v <= 255 THEN v
    ELSE IF b.f2u8 = "wrap" THEN v % 256
    ELSE IF v < 0 THEN 0 ELSE 255

\* one channel: uint8(float64(prevC.X-currC.X)*fract + float64(currC.X)) with
\* fract = float64(lvl) - float64(currV)/float64(diff); prevC.X-currC.X is a
\* uint8 subtraction. The value is c + d*lvl - d*currV/diff, whose integer
\* part is taken without forming the 33-bit product lvl*diff.
channel(prevX, currX, lvl, i, b) ==
    LET d == (prevX - currX) % 256
        v == IF diff(i) = 0 THEN currX
             ELSE currX + d * lvl - CeilDiv(d * currV(i), diff(i))
    IN  F2U8(v, b)

\* the first i in 0..len(colors)-1 with lvl < currV(i), or len(colors)
RECURSIVE firstAbove(_, _)
firstAbove(lvl, i) ==
    IF i >= lenColors THEN lenColors
    ELSE IF lvl < currV(i) THEN i
    ELSE firstAbove(lvl, i + 1)

\* the loop of getColor, from index i on
gradient(lvl, b) ==
    LET i == firstAbove(lvl, 0)
    IN  IF i >= lenColors THEN colors[lenColors - 1]
        ELSE LET currC == colors[i]
                 prevC == colors[Max0(i - 1)]
             IN  [k \in 1..4 |-> channel(prevC[k], currC[k], lvl, i, b)]

\* getColor without the early return for lvl <= 0
getColorNoFloor(lvl, b) ==
    IF lvl >= MaxUint16 THEN colors[lenColors - 1]
    ELSE gradient(lvl, b)

getColor(lvl, b) ==
    IF lvl <= 0 THEN colors[0]
    ELSE IF lvl >= MaxUint16 THEN colors[lenColors - 1]
    ELSE gradient(lvl, b)

----------------------------------------------------------------------------
(* github.com/google/hilbert as netmap.go uses it: New and Map *)

ErrNotPositive == "N must be greater than zero"
ErrNotPowerOfTwo == "N must be a power of two"
ErrOutOfRange == "value is out of range"

\* n & (n-1) == 0 for n > 0
RECURSIVE singleBit(_)
singleBit(n) == n = 1 \/ (n > 1 /\ n % 2 = 0 /\ singleBit(n \div 2))

New(n) ==
    IF n <= 0 THEN [N |-> 0, err |-> ErrNotPositive]
    ELSE IF ~singleBit(n) THEN [N |-> 0, err |-> ErrNotPowerOfTwo]
    ELSE [N |-> n, err |-> nil]

rot(n, x, y, rx, ry) ==
    IF ~ry
    THEN IF rx THEN <<n - 1 - y, n - 1 - x>> ELSE <<y, x>>
    ELSE <<x, y>>

RECURSIVE mapLoop(_, _, _, _, _)
mapLoop(N, i, t, x, y) ==
    IF i >= N THEN <<x, y>>
    ELSE LET rx == (t \div 2) % 2 = 1           \* t&2 == 2
             ry == IF rx THEN ~(t % 2 = 1) ELSE t % 2 = 1
             r  == rot(i, x, y, rx, ry)
         IN  mapLoop(N, i * 2, t \div 4,
                     r[1] + (IF rx THEN i ELSE 0),
                     r[2] + (IF ry THEN i ELSE 0))

\* Map with rx tested against the wrong bit value (t&2 == 1, never true)
RECURSIVE mapLoopWrongBit(_, _, _, _, _)
mapLoopWrongBit(N, i, t, x, y) ==
    IF i >= N THEN <<x, y>>
    ELSE LET ry == t % 2 = 1
             r  == rot(i, x, y, FALSE, ry)
         IN  mapLoopWrongBit(N, i * 2, t \div 4, r[1], r[2] + (IF ry THEN i ELSE 0))

MapWrongBit(hil, t) ==
    IF t < 0 \/ t >= hil.N * hil.N
    THEN [x |-> -1, y |-> -1, err |-> ErrOutOfRange]
    ELSE LET p == mapLoopWrongBit(hil.N, 1, t, 0, 0)
         IN  [x |-> p[1], y |-> p[2], err |-> nil]

Map(hil, t) ==
    IF t < 0 \/ t >= hil.N * hil.N
    THEN [x |-> -1, y |-> -1, err |-> ErrOutOfRange]
    ELSE LET p == mapLoop(hil.N, 1, t, 0, 0)
         IN  [x |-> p[1], y |-> p[2], err |-> nil]

----------------------------------------------------------------------------
(* nmap.go: Host, ScanType, parseXml, Scan *)

ScanHostUp == "HOSTUP"
ScanDefaultPorts == "DEFAULTPORTS"
ScanAllPorts == "ALLPORTS"
ScanWebPorts == "WEBPORTS"

\* net.IP: a sequence of bytes, of length 4, or 0 (nil)
nilIP == << >>

\* net.ParseIP on the address strings of the model; nil for any other text
ParseIP(a) ==
    CASE a = "10.0.0.1"      -> <<10, 0, 0, 1>>
      [] a = "10.0.0.2"      -> <<10, 0, 0, 2>>
      [] a = "9.255.255.255" -> <<9, 255, 255, 255>>
      [] a = "10.0.1.0"      -> <<10, 0, 1, 0>>
      [] OTHER               -> nilIP

\* net.IP.String: "<nil>" for an IP of length 0, the dotted form for IPv4
IPString(ip) ==
    IF Len(ip) = 0 THEN "<nil>"
    ELSE IF Len(ip) = 4
         THEN ToString(ip[1]) \o "." \o ToString(ip[2]) \o "."
              \o ToString(ip[3]) \o "." \o ToString(ip[4])
         ELSE "?"

\* strconv.Atoi on the srtt strings of the model
Atoi(a) ==
    CASE a = "0"  -> [i |-> 0, err |-> nil]
      [] a = "10" -> [i |-> 10, err |-> nil]
      [] a = "40" -> [i |-> 40, err |-> nil]
      [] OTHER    -> [i |-> 0, err |-> "invalid syntax"]

\* for _, xa := range xh.Addrs: the last address of type ipv4 wins
RECURSIVE addrLoop(_, _)
addrLoop(Addrs, ip) ==
    IF Addrs = << >> THEN ip
    ELSE addrLoop(Tail(Addrs),
                  IF Head(Addrs).Type = "ipv4" THEN ParseIP(Head(Addrs).Addr) ELSE ip)

\* for _, xt := range xh.Times: the last srtt that parses wins
RECURSIVE timesLoop(_, _)
timesLoop(Times, rtt) ==
    IF Times = << >> THEN rtt
    ELSE timesLoop(Tail(Times),
                   IF Atoi(Head(Times).RTT).err # nil THEN rtt
                   ELSE Atoi(Head(Times).RTT).i)

\* the open ports of a host element, as "proto/id"
RECURSIVE portsLoop(_)
portsLoop(Port) ==
    IF Port = << >> THEN << >>
    ELSE (IF Head(Port).State = "open"
          THEN <<Head(Port).Proto \o "/" \o Head(Port).Id>> ELSE << >>)
         \o portsLoop(Tail(Port))

xmlHost(xh) ==
    [IP |-> addrLoop(xh.Addrs, nilIP),
     RTT |-> timesLoop(xh.Times, 0),
     OpenPorts |-> portsLoop(xh.Ports)]

\* if h.IP.String() != "" { hosts = append(hosts, h) }
keepHost(h) == IPString(h.IP) # ""

\* parseXml on a decoded document (a sequence of host elements)
RECURSIVE parseHosts(_)
parseHosts(Hosts) ==
    IF Hosts = << >> THEN << >>
    ELSE LET h == xmlHost(Head(Hosts))
         IN  (IF keepHost(h) THEN <<h>> ELSE << >>) \o parseHosts(Tail(Hosts))

\* xmlOut: what nmap printed: [ok, Hosts]; ok = FALSE is XML that does not decode
parseXml(xmlOut) ==
    IF ~xmlOut.ok THEN [hosts |-> << >>, err |-> "XML syntax error"]
    ELSE [hosts |-> parseHosts(xmlOut.Hosts), err |-> nil]

ScanTypes == {ScanHostUp, ScanDefaultPorts, ScanAllPorts, ScanWebPorts}

\* run: how the nmap process ended: [ok, xmlOut]
Scan(n, t, run) ==
    IF t \notin ScanTypes THEN [hosts |-> << >>, err |-> "unknown scan type"]
    ELSE IF ~run.ok THEN [hosts |-> << >>, err |-> "error during scan"]
    ELSE parseXml(run.xmlOut)

----------------------------------------------------------------------------
(* netmap.go: IPv4ToInt, renderImage *)

\* ip.To4() on the addresses of the model: nil unless the IP is an IPv4 address
To4(ip) == IF Len(ip) = 4 THEN ip ELSE nilIP

\* uint32(ip[0])<<24 + uint32(ip[1])<<16 + uint32(ip[2])<<8 + uint32(ip[3]),
\* for an ip whose To4() is not nil (indexing nil panics: see paintLoop)
IPv4ToInt(ip) ==
    LET q == To4(ip)
    IN  U32(q[1] * 256 + q[2], q[3] * 256 + q[4])

\* int(t) of a uint32: itself where int has 64 bits, the two's complement value
\* where it has 32. A 64-bit value of 2^31 or more stands as 2^31-1 here: Map
\* only compares it with N*N, which is below 2^31 for every side of the model.
GoInt(t, b) ==
    IF t.hi < Half \div 2 THEN t.hi * Half + t.lo
    ELSE IF b.intBits = 32 THEN (t.hi - Half) * Half + t.lo
    ELSE (Half \div 2 - 1) * Half + (Half - 1)

NoCanvas == [l |-> -1, pix |-> << >>]

Transparent == <<0, 0, 0, 0>>

\* image.NewRGBA of l x l, then draw.Draw of colors[0] unless t
newCanvas(l, t) ==
    [l |-> l,
     pix |-> [q \in (0..(l - 1)) \X (0..(l - 1)) |->
                 IF t THEN Transparent ELSE colors[0]]]

\* canvas.SetRGBA(x, y, c): nothing outside the rectangle
SetRGBA(cv, x, y, c) ==
    IF <<x, y>> \in DOMAIN cv.pix
    THEN [cv EXCEPT !.pix = [@ EXCEPT ![<<x, y>>] = c]]
    ELSE cv

\* the metric the scan type selects
metric(h, st) == IF st = ScanHostUp THEN h.RTT ELSE Len(h.OpenPorts)

RECURSIVE maxLoop(_, _, _)
maxLoop(hs, st, max) ==
    IF hs = << >> THEN max
    ELSE maxLoop(Tail(hs), st, IF metric(Head(hs), st) > max THEN metric(Head(hs), st) ELSE max)

\* lvl = uint16(metric * int(math.MaxUint16) / max), for max # 0
level(h, st, max) == ((metric(h, st) * MaxUint16) \div max) % Half

PanicIndex == "panic: runtime error: index out of range"
PanicDivide == "panic: runtime error: integer divide by zero"

\* the painting loop with the error of Map ignored: the pixel Map returned is written
RECURSIVE paintLoopNoSkip(_, _, _, _, _, _, _)
paintLoopNoSkip(cv, hs, hil, startIP, st, max, b) ==
    IF hs = << >> THEN [canvas |-> cv, panic |-> nil]
    ELSE LET h == Head(hs) IN
         IF To4(h.IP) = nilIP THEN [canvas |-> cv, panic |-> PanicIndex]
         ELSE LET m == Map(hil, GoInt(Sub32(IPv4ToInt(h.IP), startIP), b))
              IN  IF max = 0 THEN [canvas |-> cv, panic |-> PanicDivide]
                  ELSE paintLoopNoSkip(
                         SetRGBA(cv, m.x % hil.N, m.y % hil.N, getColor(level(h, st, max), b)),
                         Tail(hs), hil, startIP, st, max, b)

\* for _, h := range hosts { ... canvas.SetRGBA(x, y, getColor(lvl)) }
RECURSIVE paintLoop(_, _, _, _, _, _, _)
paintLoop(cv, hs, hil, startIP, st, max, b) ==
    IF hs = << >> THEN [canvas |-> cv, panic |-> nil]
    ELSE LET h == Head(hs) IN
         IF To4(h.IP) = nilIP THEN [canvas |-> cv, panic |-> PanicIndex]
         ELSE LET m == Map(hil, GoInt(Sub32(IPv4ToInt(h.IP), startIP), b))
              IN  IF m.err # nil
                  THEN paintLoop(cv, Tail(hs), hil, startIP, st, max, b)
                  ELSE IF max = 0 THEN [canvas |-> cv, panic |-> PanicDivide]
                  ELSE paintLoop(
                         SetRGBA(cv, m.x, m.y, getColor(level(h, st, max), b)),
                         Tail(hs), hil, startIP, st, max, b)

ErrHilbert(e) == "unable to create hilbert map for given network: " \o e

\* renderImage(n, t, st, hosts): [canvas, err, panic]
renderImage(n, t, st, hs, b) ==
    LET l   == getLength(n).l              \* l, _ := getLength(n)
        cv  == newCanvas(l, t)
        hil == New(l)
    IN  IF hil.err # nil
        THEN [canvas |-> NoCanvas, err |-> ErrHilbert(hil.err), panic |-> nil]
        ELSE LET r == paintLoop(cv, hs, hil, IPv4ToInt(n.IP), st, maxLoop(hs, st, 0), b)
             IN  IF r.panic # nil
                 THEN [canvas |-> NoCanvas, err |-> nil, panic |-> r.panic]
                 ELSE [canvas |-> r.canvas, err |-> nil, panic |-> nil]

----------------------------------------------------------------------------
(* netmap.go: writeImage *)

\* io: [create, encode]: whether os.Create and the encoder succeed.
\* f, _ := os.Create(*file); png.Encode / jpeg.Encode, its error dropped;
\* return nil
writeImage(cv, io) ==
    [err |-> nil,
     out |-> IF ~io.create THEN "none"
             ELSE IF ~io.encode THEN "empty"
             ELSE "image"]

----------------------------------------------------------------------------
(* The inputs of the model *)

\* what net.ParseCIDR returns for the -network flag: the masked address and the mask
Networks ==
    {[IP |-> <<10, 0, 0, 0>>, ones |-> 24, bits |-> 32],
     [IP |-> <<10, 0, 0, 0>>, ones |-> 30, bits |-> 32],
     [IP |-> <<10, 0, 0, 0>>, ones |-> 23, bits |-> 32],
     [IP |-> [i \in 1..16 |-> IF i = 1 THEN 253 ELSE 0], ones |-> 120, bits |-> 128]}

Builds ==
    {[intBits |-> 64, f2u8 |-> "wrap"],
     [intBits |-> 32, f2u8 |-> "wrap"],
     [intBits |-> 64, f2u8 |-> "sat"]}

Mac == [Addr |-> "00:11:22:33:44:55", Type |-> "mac"]
V4(a) == [Addr |-> a, Type |-> "ipv4"]
Port(id, state) == [Proto |-> "tcp", Id |-> id, State |-> state]

\* a host element: its addresses, its srtt strings, its ports
Xh(a, t, p) == [Addrs |-> a, Times |-> [i \in DOMAIN t |-> [RTT |-> t[i]]], Ports |-> p]

NoPorts == << >>
OnePort == <<Port("80", "open")>>
FourPorts == <<Port("22", "open"), Port("80", "open"), Port("443", "open"),
               Port("8080", "open")>>
ClosedPort == <<Port("80", "closed")>>

\* the host elements of the model: addresses in the networks (10.0.0.1,
\* 10.0.0.2), below them (9.255.255.255), above them (10.0.1.0), and a host
\* with no ipv4 address; metrics 0, 10, 40 (srtt) and 0, 1, 4 (open ports)
XmlHosts ==
    {Xh(<<V4("10.0.0.1"), Mac>>, <<"0", "">>, NoPorts),
     Xh(<<V4("10.0.0.1")>>, <<"10">>, OnePort),
     Xh(<<V4("10.0.0.1")>>, <<"40">>, ClosedPort),
     Xh(<<V4("10.0.0.2")>>, <<"40">>, FourPorts),
     Xh(<<V4("10.0.0.2")>>, <<"0">>, ClosedPort),
     Xh(<<V4("9.255.255.255")>>, <<"40">>, FourPorts),
     Xh(<<V4("9.255.255.255")>>, <<"0">>, NoPorts),
     Xh(<<V4("10.0.1.0")>>, <<"10">>, OnePort),
     Xh(<<Mac>>, <<"10">>, OnePort)}

Docs == UNION {[1..k -> XmlHosts] : k \in 0..MaxHosts}

\* how the nmap process can end
Runs ==
    {[ok |-> FALSE, xmlOut |-> [ok |-> FALSE, Hosts |-> << >>]],
     [ok |-> TRUE, xmlOut |-> [ok |-> FALSE, Hosts |-> << >>]]}
    \cup {[ok |-> TRUE, xmlOut |-> [ok |-> TRUE, Hosts |-> d]] : d \in Docs}

IOs == [create : BOOLEAN, encode : BOOLEAN]

NoFlags == [network |-> [IP |-> nilIP, ones |-> 0, bits |-> 0],
            scantype |-> "", transparent |-> FALSE]
NoCall == [fn |-> "none"]
NoRet == [done |-> FALSE]

----------------------------------------------------------------------------
(* netmap.go: main *)

Init ==
    /\ pc = "main"
    /\ flags \in [network : Networks,
                  scantype : {ScanHostUp, ScanWebPorts, "BOGUS"},
                  transparent : BOOLEAN]
    /\ build \in Builds
    /\ hosts = << >>
    /\ canvas = NoCanvas
    /\ err = nil
    /\ exit = -1
    /\ out = "none"
    /\ arg = NoCall
    /\ ret = NoRet

\* hosts, err := Scan(n, scantype); a failure ends in printUsage(..., true)
MainScan ==
    /\ pc = "main"
    /\ \E run \in Runs :
         LET r == Scan(flags.network, flags.scantype, run)
         IN  IF r.err # nil
             THEN /\ pc' = "exit"
                  /\ exit' = 1
                  /\ err' = "scan failed: " \o r.err
                  /\ hosts' = hosts
             ELSE /\ pc' = "scanned"
                  /\ hosts' = r.hosts
                  /\ UNCHANGED <<exit, err>>
    /\ UNCHANGED <<flags, build, canvas, out, arg, ret>>

\* canvas, err := renderImage(...); an error ends in log.Fatalf, a panic in exit status 2
MainRender ==
    /\ pc = "scanned"
    /\ LET r == renderImage(flags.network, flags.transparent, flags.scantype, hosts, build)
       IN  IF r.panic # nil
           THEN /\ pc' = "exit" /\ exit' = 2 /\ err' = r.panic /\ canvas' = NoCanvas
           ELSE IF r.err # nil
           THEN /\ pc' = "exit" /\ exit' = 1 /\ err' = r.err /\ canvas' = NoCanvas
           ELSE /\ pc' = "rendered" /\ canvas' = r.canvas /\ UNCHANGED <<exit, err>>
    /\ UNCHANGED <<flags, build, hosts, out, arg, ret>>

\* if err := writeImage(*file, canvas); err != nil { log.Fatalf } ; then main returns
MainWrite ==
    /\ pc = "rendered"
    /\ \E io \in IOs :
         LET w == writeImage(canvas, io)
         IN  /\ out' = w.out
             /\ err' = w.err
             /\ exit' = IF w.err # nil THEN 1 ELSE 0
    /\ pc' = "exit"
    /\ UNCHANGED <<flags, build, hosts, canvas, arg, ret>>

Next == MainScan \/ MainRender \/ MainWrite

Spec == Init /\ [][Next]_vars

----------------------------------------------------------------------------
(* getLength, getColor and the Hilbert mapper called on their own *)

Idle ==
    /\ pc = "call"
    /\ flags = NoFlags
    /\ hosts = << >>
    /\ canvas = NoCanvas
    /\ err = nil
    /\ exit = -1
    /\ out = "none"
    /\ ret = NoRet

Masks == {[IP |-> <<0, 0, 0, 0>>, ones |-> p, bits |-> 32] : p \in 0..32}
         \cup {[IP |-> <<0, 0, 0, 0>>, ones |-> p, bits |-> 128] : p \in 0..128}

InitGetLength ==
    /\ Idle
    /\ build \in Builds
    /\ arg \in {[fn |-> "getLength", n |-> n] : n \in Masks}

CallGetLength ==
    /\ arg.fn = "getLength" /\ ~ret.done
    /\ ret' = [done |-> TRUE, r |-> getLength(arg.n)]
    /\ UNCHANGED <<pc, flags, build, hosts, canvas, err, exit, out, arg>>

SpecGetLength == InitGetLength /\ [][CallGetLength]_vars

InitGetColor ==
    /\ Idle
    /\ build \in Builds
    /\ arg \in {[fn |-> "getColor", lvl |-> v] : v \in 0..MaxUint16}

CallGetColor ==
    /\ arg.fn = "getColor" /\ ~ret.done
    /\ ret' = [done |-> TRUE, c |-> getColor(arg.lvl, build)]
    /\ UNCHANGED <<pc, flags, build, hosts, canvas, err, exit, out, arg>>

SpecGetColor == InitGetColor /\ [][CallGetColor]_vars

InitHilbert ==
    /\ Idle
    /\ build \in {b \in Builds : b.intBits = 64 /\ b.f2u8 = "wrap"}
    /\ arg \in {[fn |-> "hilbert", n |-> k] : k \in 0..(2 ^ MaxOrder)}

CallNew ==
    /\ arg.fn = "hilbert" /\ ~ret.done
    /\ ret' = [done |-> TRUE, hil |-> New(arg.n), mapped |-> FALSE, t |-> 0,
               m |-> [x |-> 0, y |-> 0, err |-> nil]]
    /\ UNCHANGED <<pc, flags, build, hosts, canvas, err, exit, out, arg>>

CallMap ==
    /\ arg.fn = "hilbert" /\ ret.done /\ ret.hil.err = nil /\ ~ret.mapped
    /\ \E t \in (-2)..(ret.hil.N * ret.hil.N + 2) :
         ret' = [ret EXCEPT !.mapped = TRUE, !.t = t, !.m = Map(ret.hil, t)]
    /\ UNCHANGED <<pc, flags, build, hosts, canvas, err, exit, out, arg>>

NextHilbert == CallNew \/ CallMap

SpecHilbert == InitHilbert /\ [][NextHilbert]_vars

----------------------------------------------------------------------------
(* The gradient as the specification words it, for stating the claims *)

\* stop i is centred at i * MAXVALUE / N
StopCentre(i) == (i * MaxUint16) \div lenColors

\* a / b rounded to the nearest integer, b > 0
RoundDiv(a, b) == (2 * a + b) \div (2 * b)

\* channel k at lvl, between the centres of stop i-1 and stop i
Lerp(i, k, lvl) ==
    colors[i - 1][k]
    + RoundDiv((colors[i][k] - colors[i - 1][k]) * (lvl - StopCentre(i - 1)),
               StopCentre(i) - StopCentre(i - 1))

\* the piecewise-linear colour at lvl: the first stop at or below its centre,
\* the last stop at or above its centre
LinearColorAt(lvl) ==
    IF lvl <= 0 THEN colors[0]
    ELSE IF lvl >= StopCentre(lenColors - 1) THEN colors[lenColors - 1]
    ELSE LET i == CHOOSE j \in 1..(lenColors - 1) :
                      StopCentre(j - 1) <= lvl /\ lvl < StopCentre(j)
         IN  [k \in 1..4 |-> Lerp(i, k, lvl)]

Between(v, a, b) == (a <= v /\ v <= b) \/ (b <= v /\ v <= a)

\* two colours that differ by at most one step in every channel
Near(c1, c2) == \A k \in 1..4 : c1[k] - c2[k] \in {-1, 0, 1}

ColorCalled == arg.fn = "getColor" /\ ret.done

----------------------------------------------------------------------------
(* C1 *)

LengthCalled == arg.fn = "getLength" /\ ret.done /\ arg.n.bits = 32

\* s * s = 2^h for h <= 32, in 32-bit arithmetic: halved once when h > 30
SquareIsPow2(s, h) ==
    IF h <= 30 THEN s * s = 2 ^ h
    ELSE s % 2 = 0 /\ (s \div 2) * (s \div 2) = 2 ^ (h - 2)

\* C1: getLength on an IPv4 network with prefix length p returns, when the
\* host-bit count 32-p is even, a side with side*side = 2^(32-p) and no error;
\* when 32-p is odd it returns the not-square error and no side.
C1_SquareSideOrError ==
    LengthCalled =>
        LET h == 32 - arg.n.ones
        IN  IF h % 2 = 0
            THEN ret.r.err = nil /\ ret.r.l > 0 /\ SquareIsPow2(ret.r.l, h)
            ELSE ret.r.err = ErrNotSquare /\ ret.r.l = 0

\* a /23 was rejected
C1_Witness == LengthCalled /\ arg.n.ones = 23 /\ ret.r.err = ErrNotSquare

----------------------------------------------------------------------------
(* C3, C7 *)

\* C3: for every level strictly between the centres of stop i-1 and stop i,
\* every channel of getColor(level) lies between the two stops' channel values
\* and equals (to the rounding step) the linear interpolation between them.
C3_PiecewiseLinear ==
    ColorCalled =>
        \A i \in 1..(lenColors - 1) :
            (StopCentre(i - 1) < arg.lvl /\ arg.lvl < StopCentre(i)) =>
                \A k \in 1..4 :
                    /\ Between(ret.c[k], colors[i - 1][k], colors[i][k])
                    /\ ret.c[k] - Lerp(i, k, arg.lvl) \in {-1, 0, 1}

\* C7: getColor(0) is the first stop (black) exactly, getColor(MaxUint16) the
\* last stop (white) exactly; every level at or past the centre of the last
\* stop gets the last stop's colour, and no channel of any result leaves the
\* range the stops span in that channel.
C7_ExactExtremes ==
    ColorCalled =>
        /\ arg.lvl = 0 => ret.c = <<0, 0, 0, 255>>
        /\ arg.lvl = MaxUint16 => ret.c = <<255, 255, 255, 255>>
        /\ arg.lvl >= StopCentre(lenColors - 1) => ret.c = colors[lenColors - 1]
        /\ \A k \in 1..4 :
              /\ \E i \in DOMAIN colors : colors[i][k] <= ret.c[k]
              /\ \E i \in DOMAIN colors : colors[i][k] >= ret.c[k]

C7_Witness == ColorCalled /\ arg.lvl = MaxUint16 /\ ret.c = colors[lenColors - 1]

----------------------------------------------------------------------------
(* C8 *)

PowerOfTwo(n) == \E k \in 0..30 : n = 2 ^ k

Offsets(N) == 0..(N * N - 1)
Grid(N) == (0..(N - 1)) \X (0..(N - 1))

\* C8: for a side that is a power of two New succeeds, and Map sends the
\* offsets 0..side*side-1 one-to-one onto the coordinates of the square; an
\* offset outside that range gets ErrOutOfRange.
C8_MapBijection ==
    (arg.fn = "hilbert" /\ ret.done /\ PowerOfTwo(arg.n)) =>
        LET hil == ret.hil
            P == {<<Map(hil, t).x, Map(hil, t).y>> : t \in Offsets(arg.n)}
        IN  /\ hil.err = nil /\ hil.N = arg.n
            /\ ~ret.mapped =>     \* the whole mapping, once for each side
                  /\ \A t \in Offsets(arg.n) : Map(hil, t).err = nil
                  /\ P = Grid(arg.n)
                  /\ Cardinality(P) = Cardinality(Offsets(arg.n))   \* no pixel is shared
            /\ ret.mapped =>
                  IF ret.t \in Offsets(arg.n)
                  THEN ret.m.err = nil /\ <<ret.m.x, ret.m.y>> \in Grid(arg.n)
                  ELSE ret.m.err = ErrOutOfRange

C8_Witness ==
    /\ arg.fn = "hilbert" /\ ret.done /\ arg.n = 4
    /\ ret.mapped /\ ret.t = 15 /\ ret.m.err = nil

----------------------------------------------------------------------------
(* The pipeline, for stating the claims *)

ScanErrors ==
    {"scan failed: " \o e :
        e \in {"unknown scan type", "error during scan", "XML syntax error"}}

ScanFailed == pc = "exit" /\ err \in ScanErrors

\* renderImage was called and has ended (returned, failed or panicked)
RenderEnded == pc = "rendered" \/ (pc = "exit" /\ err \notin ScanErrors)

\* renderImage has just ended: nothing was written yet
RenderJustEnded == pc = "rendered" \/ (pc = "exit" /\ exit # 0 /\ err \notin ScanErrors)

\* renderImage returned a canvas
RenderReturned == pc = "rendered" \/ (pc = "exit" /\ exit = 0)

Panicked == pc = "exit" /\ exit = 2

ValidNetwork == getLength(flags.network).err = nil

\* an IPv4 address as a number (every address of the model is below 2^31)
Val(ip) == ((ip[1] * 256 + ip[2]) * 256 + ip[3]) * 256 + ip[4]

HasIP(h) == Len(h.IP) = 4

\* the address lies in the network: base <= address < base + 2^(32-ones)
InSubnet(h) ==
    /\ HasIP(h)
    /\ Val(flags.network.IP) <= Val(h.IP)
    /\ Val(h.IP) - Val(flags.network.IP) < 2 ^ (32 - flags.network.ones)

Side == getLength(flags.network).l

\* the pixel of a host in the network
PixelOf(h) ==
    LET m == Map(New(Side), Val(h.IP) - Val(flags.network.IP))
    IN  <<m.x, m.y>>

MaxMetric == maxLoop(hosts, flags.scantype, 0)

Background == IF flags.transparent THEN Transparent ELSE colors[0]

NoPixel == <<-1, -1>>

\* the pixel of every host: NoPixel for a host outside the network
HostPixels ==
    [j \in 1..Len(hosts) |-> IF InSubnet(hosts[j]) THEN PixelOf(hosts[j]) ELSE NoPixel]

\* the records whose pixel write decides pixel q: the in-network hosts at q
Writers(px, q) == {j \in DOMAIN px : px[j] = q}

Last(S) == CHOOSE j \in S : \A i \in S : i <= j

----------------------------------------------------------------------------
(* C2 *)

\* C2: when the largest selected metric is 0 (no record, or every record's
\* metric 0), renderImage on a valid network completes: every record gets
\* level 0 and the coldest colour, and with transparent=false the whole
\* canvas is the coldest colour (16 x 16 for a /24).
C2_ZeroMaxCompletes ==
    (RenderEnded /\ ValidNetwork /\ MaxMetric = 0
       /\ \A j \in 1..Len(hosts) : HasIP(hosts[j])) =>
        /\ ~Panicked
        /\ canvas # NoCanvas
        /\ canvas.l = Side
        /\ flags.network.ones = 24 => canvas.l = 16
        /\ LET px == HostPixels
           IN  \A q \in DOMAIN canvas.pix :
                  (Writers(px, q) # {} \/ ~flags.transparent) => canvas.pix[q] = colors[0]

----------------------------------------------------------------------------
(* C4 *)

\* C4: renderImage on a network that getLength rejects fails with the error
\* getLength returned, and returns no canvas.
C4_LengthErrorPropagated ==
    (RenderEnded /\ ~ValidNetwork) =>
        /\ err = getLength(flags.network).err
        /\ canvas = NoCanvas
        /\ exit = 1

----------------------------------------------------------------------------
(* C5 *)

\* the hosts whose step of the painting loop is not a skip
Unskipped == SelectSeq(hosts, LAMBDA h : ~HasIP(h) \/ InSubnet(h))

\* C5: a record whose address lies outside the network is skipped. The outcome
\* of renderImage (the canvas, or the panic of another record) is the outcome
\* of the same painting with the outside records' steps removed, and every
\* pixel of a returned canvas is the background or the colour of the last
\* in-network record at that pixel.
C5_OutsideRecordSkipped ==
    (RenderJustEnded /\ ValidNetwork) =>
        LET r == paintLoop(newCanvas(Side, flags.transparent), Unskipped, New(Side),
                           IPv4ToInt(flags.network.IP), flags.scantype, MaxMetric, build)
            px == HostPixels
            max == MaxMetric
        IN  /\ Panicked <=> r.panic # nil
            /\ ~Panicked =>
                  /\ canvas = r.canvas
                  /\ DOMAIN canvas.pix = Grid(canvas.l)
                  /\ \A q \in DOMAIN canvas.pix :
                        canvas.pix[q] =
                            IF Writers(px, q) = {} THEN Background
                            ELSE getColor(level(hosts[Last(Writers(px, q))],
                                                flags.scantype, max), build)

\* a record below the base (its offset wraps) and one in the network, rendered
C5_Witness ==
    /\ pc = "rendered"
    /\ Len(hosts) = 2
    /\ hosts[1].IP = <<9, 255, 255, 255>>
    /\ hosts[2].IP = <<10, 0, 0, 1>>
    /\ canvas.pix[PixelOf(hosts[2])] # Background

----------------------------------------------------------------------------
(* C6 *)

\* C6: with the largest metric above 0, every in-network record is painted
\* with the gradient colour at metric * MAXVALUE / max: the hottest colour
\* exactly when its metric is the largest, the colour interpolated a quarter
\* of the way along the gradient for a metric of 10 against a largest of 40.
C6_NormalizedColour ==
    (RenderReturned /\ MaxMetric > 0) =>
        LET px == HostPixels
            max == MaxMetric
        IN  \A j \in DOMAIN px :
                (px[j] # NoPixel /\ j = Last(Writers(px, px[j]))) =>
                    LET v == metric(hosts[j], flags.scantype)
                    IN  /\ Near(canvas.pix[px[j]], LinearColorAt((v * MaxUint16) \div max))
                        /\ v = max => canvas.pix[px[j]] = colors[lenColors - 1]

----------------------------------------------------------------------------
(* C9 *)

\* C9: after a failed scan nothing is rendered or written and the program ends
\* with an error; after a failed create or encode the program does not end as
\* if the image were written: it ends with status 0 only with the image in
\* the output file.
C9_FailuresAreFatal ==
    /\ ScanFailed => (exit = 1 /\ canvas = NoCanvas /\ out = "none")
    /\ (pc = "exit" /\ exit = 0) => (out = "image" /\ err = nil)

----------------------------------------------------------------------------
(* C10 *)

\* C10: every Host parseXml returns has an IPv4 address, so renderImage never
\* indexes a nil address.
C10_HostsHaveAddress ==
    /\ pc = "scanned" => \A j \in 1..Len(hosts) : To4(hosts[j].IP) # nilIP
    /\ err # PanicIndex

=============================================================================
